---- MODULE Spec2Model ----
(***************************************************************************)
(* A model of the music-sharing web application of src/app.py: the token  *)
(* manager that runs before every request, the presigned upload flow      *)
(* (request-upload, direct transfer, finalize-upload), the like toggle,   *)
(* the orphan cleanup command, the filename sanitizer and the profile     *)
(* page.                                                                  *)
(*                                                                         *)
(* Text is modelled as a sequence of one-character strings, so that       *)
(* os.path.splitext, os.path.dirname, os.path.basename, re.sub and        *)
(* str.split are computed character by character as Python computes them. *)
(***************************************************************************)
EXTENDS Integers, Sequences, FiniteSets, TLC

VARIABLES
    now,        \* time.time() / datetime.now(): seconds
    session,    \* the caller's Flask session: NoSession or the 'user' record
    trace,      \* the last request: endpoint, collaborator calls in order, response
    music,      \* storage bucket 'music': set of [path, created_at]
    covers,     \* storage bucket 'covers': set of [path, created_at]
    songs,      \* table 'songs': set of rows
    upload_seq, \* number of uuid4() correlation ids drawn so far
    profiles,   \* table 'profiles': the user ids that have a row
    likes,      \* table 'likes': number of rows per <<user_id, song_id>>
    song_likes, \* column songs.likes per song id
    lk,         \* per worker: the like_song request it is executing
    pair,       \* observer of two consecutive undisturbed toggles of one (user, song)
    cl,         \* the running cleanup_orphaned_files command
    removed,    \* log of storage objects removed by the cleanup command
    san         \* sanitize_filename: [input, output, done]

sessVars == <<now, session>>
storeVars == <<music, covers, songs, upload_seq, profiles>>
likeVars == <<likes, song_likes, lk, pair>>
cleanVars == <<cl, removed>>
vars == <<now, session, trace, music, covers, songs, upload_seq, profiles,
          likes, song_likes, lk, pair, cl, removed, san>>

(***************************************************************************)
(* Bounds of the model.                                                    *)
(***************************************************************************)
MaxNameLen == 3      \* longest filename given to sanitize_filename

(***************************************************************************)
(* Text helpers.                                                           *)
(***************************************************************************)
Lower == {"a","b","c","d","e","f","g","h","i","j","k","l","m",
          "n","o","p","q","r","s","t","u","v","w","x","y","z"}
Upper == {"A","B","C","D","E","F","G","H","I","J","K","L","M",
          "N","O","P","Q","R","S","T","U","V","W","X","Y","Z"}
Digit == {"0","1","2","3","4","5","6","7","8","9"}

\* The character class [a-zA-Z0-9_-] of the sanitizer's pattern.
SafeChars == Lower \cup Upper \cup Digit \cup {"_", "-"}

\* str.rfind(c) + 1: the 1-based index of the last c in p, 0 when there is none.
LastIndexOf(p, c) ==
    LET hits == {i \in 1..Len(p) : p[i] = c}
    IN  IF hits = {} THEN 0 ELSE CHOOSE i \in hits : \A j \in hits : j <= i

\* posixpath.splitext -> genericpath._splitext(p, '/', None, '.'): the extension
\* starts at the last dot of the last path component, unless only dots precede
\* it in that component.
splitext_first_dot(p) ==
    LET sepIndex == LastIndexOf(p, "/")
        dots == {i \in (sepIndex + 1)..Len(p) : p[i] = "."}
        dotIndex == IF dots = {} THEN 0 ELSE CHOOSE i \in dots : \A j \in dots : i <= j
    IN  IF dotIndex > sepIndex /\ \E i \in (sepIndex + 1)..(dotIndex - 1) : p[i] # "."
        THEN <<SubSeq(p, 1, dotIndex - 1), SubSeq(p, dotIndex, Len(p))>>
        ELSE <<p, <<>>>>

splitext(p) ==
    LET sepIndex == LastIndexOf(p, "/")
        dotIndex == LastIndexOf(p, ".")
    IN  IF dotIndex > sepIndex /\ \E i \in (sepIndex + 1)..(dotIndex - 1) : p[i] # "."
        THEN <<SubSeq(p, 1, dotIndex - 1), SubSeq(p, dotIndex, Len(p))>>
        ELSE <<p, <<>>>>

\* re.sub(r'[^a-zA-Z0-9_-]', '_', name)
re_sub_unsafe(name) ==
    [i \in 1..Len(name) |-> IF name[i] \in SafeChars THEN name[i] ELSE "_"]

sanitize_whole_filename(filename) == re_sub_unsafe(filename)

\* request_upload.sanitize_filename
sanitize_filename(filename) ==
    LET name == splitext(filename)[1]
        ext == splitext(filename)[2]
    IN  re_sub_unsafe(name) \o ext

\* os.path.dirname / os.path.basename (posixpath): split at the last '/'.
dirname(p) ==
    LET i == LastIndexOf(p, "/")
        head == SubSeq(p, 1, i)
    IN  IF head # <<>> /\ \E k \in 1..Len(head) : head[k] # "/"
        THEN LET last == CHOOSE k \in 1..Len(head) :
                            head[k] # "/" /\ \A j \in (k + 1)..Len(head) : head[j] = "/"
             IN  SubSeq(head, 1, last)
        ELSE head

basename(p) == SubSeq(p, LastIndexOf(p, "/") + 1, Len(p))

\* str.strip() for the blank character of the model's inputs.
strip(s) ==
    LET keep == {i \in 1..Len(s) : s[i] # " "}
    IN  IF keep = {} THEN <<>>
        ELSE LET lo == CHOOSE i \in keep : \A j \in keep : i <= j
                 hi == CHOOSE i \in keep : \A j \in keep : j <= i
             IN  SubSeq(s, lo, hi)

\* All texts over alphabet A of length at most n.
TextsUpTo(A, n) == UNION {[1..k -> A] : k \in 0..n}

(***************************************************************************)
(* Configuration (class Config and module constants).                      *)
(***************************************************************************)
MAX_AUDIO_SIZE == 50 * 1024 * 1024
MAX_COVER_SIZE == 10 * 1024 * 1024
TOKEN_REFRESH_BUFFER == 300
ADMIN_EMAIL == "adrimarsh898@gmail.com"

\* Seconds the session clock advances per Tick, and the number of ticks.
TickSeconds == 150
MaxTicks == 4

(***************************************************************************)
(* The identity collaborator: accounts, and the sessions it hands out.     *)
(***************************************************************************)
Users == {"admin", "u1"}
email_of(id) == IF id = "admin" THEN ADMIN_EMAIL ELSE "u1@example.org"

\* Token strings as the collaborator returns them; "" is the empty string the
\* code tests with `if not access_token` / `if not refresh_token`.
AccessTokens == {"", "at"}
RefreshTokens == {"", "rt"}
\* Lifetime of a granted session: expires_at = time of grant + lifetime.
ExpiresIn == {TOKEN_REFRESH_BUFFER, TOKEN_REFRESH_BUFFER + TickSeconds}

NoSession == [present |-> FALSE, id |-> "", email |-> "", access_token |-> "",
              refresh_token |-> "", expires_at |-> 0]

\* session['user'] = {...} as login() and signup() build it.
UserSession(id, at, rt, exp) ==
    [present |-> TRUE, id |-> id, email |-> email_of(id), access_token |-> at,
     refresh_token |-> rt, expires_at |-> exp]

\* What supabase.auth.refresh_session / sign_in / sign_up can answer at time t:
\* an exception, a response without session, or a response with a session.
AuthOutcomes(t) ==
    {[kind |-> k, access_token |-> "", refresh_token |-> "", expires_at |-> 0] :
        k \in {"raise", "none"}}
    \cup {[kind |-> "session", access_token |-> "at", refresh_token |-> r, expires_at |-> t + e] :
            r \in RefreshTokens, e \in ExpiresIn}

(***************************************************************************)
(* Authentication helpers.                                                 *)
(***************************************************************************)
check_token_expiry(s, t) ==
    IF ~s.present THEN FALSE
    ELSE (s.expires_at - t) < TOKEN_REFRESH_BUFFER

refresh_user_token_retrying(s, ro) ==
    IF ~s.present THEN [ok |-> FALSE, session |-> s, events |-> <<>>]
    ELSE IF s.refresh_token = "" THEN [ok |-> FALSE, session |-> s, events |-> <<>>]
    ELSE IF ro.kind = "session"
         THEN [ok |-> TRUE,
               session |-> [s EXCEPT !.access_token = ro.access_token,
                                     !.refresh_token = ro.refresh_token,
                                     !.expires_at = ro.expires_at],
               events |-> <<"auth.refresh_session">>]
         ELSE [ok |-> FALSE, session |-> s,
               events |-> <<"auth.refresh_session", "auth.refresh_session">>]

\* refresh_user_token(): ok is its return value, events the collaborator calls made.
refresh_user_token(s, ro) ==
    IF ~s.present THEN [ok |-> FALSE, session |-> s, events |-> <<>>]
    ELSE IF s.refresh_token = ""
         THEN [ok |-> FALSE, session |-> s, events |-> <<>>]
    ELSE IF ro.kind = "session"
         THEN [ok |-> TRUE,
               session |-> [s EXCEPT !.access_token = ro.access_token,
                                     !.refresh_token = ro.refresh_token,
                                     !.expires_at = ro.expires_at],
               events |-> <<"auth.refresh_session">>]
         ELSE [ok |-> FALSE, session |-> s, events |-> <<"auth.refresh_session">>]

\* The endpoints refresh_token_if_needed lets through after a failed refresh.
ExemptEndpoints == {"login", "signup", "index", "static"}

refresh_token_if_needed_keep_session(s, t, endpoint, ro) ==
    IF s.present /\ check_token_expiry(s, t)
    THEN LET r == refresh_user_token(s, ro)
         IN  IF ~r.ok
             THEN [session |-> s, events |-> r.events,
                   redirect |-> IF endpoint \notin ExemptEndpoints THEN "login" ELSE ""]
             ELSE [session |-> r.session, events |-> r.events, redirect |-> ""]
    ELSE [session |-> s, events |-> <<>>, redirect |-> ""]

\* @app.before_request refresh_token_if_needed(): the session after the hook,
\* the collaborator calls it made, and the redirect it returned ("" for none).
refresh_token_if_needed(s, t, endpoint, ro) ==
    IF s.present /\ check_token_expiry(s, t)
    THEN LET r == refresh_user_token(s, ro)
         IN  IF ~r.ok
             THEN [session |-> NoSession, events |-> r.events,
                   redirect |-> IF endpoint \notin ExemptEndpoints THEN "login" ELSE ""]
             ELSE [session |-> r.session, events |-> r.events, redirect |-> ""]
    ELSE [session |-> s, events |-> <<>>, redirect |-> ""]

\* get_authenticated_client(): whether it returns a client (None otherwise).
get_authenticated_client(s) == s.present /\ s.access_token # ""

(***************************************************************************)
(* A request: the before_request hook, then the view (with its decorators) *)
(* unless the hook answered. `view` is the view's result on the session    *)
(* the hook left: [session, events, status, body].                         *)
(***************************************************************************)
Redirect(s, to) == [session |-> s, events |-> <<>>, status |-> 302, body |-> to]

\* login_required
login_required(s, view) ==
    IF ~s.present THEN Redirect(s, "login") ELSE view

\* admin_required
admin_required(s, view) ==
    IF ~s.present THEN Redirect(s, "login")
    ELSE IF s.email # ADMIN_EMAIL THEN Redirect(s, "index")
    ELSE view

\* The JSON body of an upload request (absent and empty fields are both <<>>,
\* which `not all([...])` treats alike; an absent size is 0, its default).
NoRequest ==
    [audio_filename |-> <<>>, cover_filename |-> <<>>, audio_size |-> 0, cover_size |-> 0,
     title |-> <<>>, artist |-> <<>>, featured_artist |-> <<>>,
     audio_path |-> <<>>, cover_path |-> <<>>, upload_id |-> <<>>]

\* The JSON fields of an upload response.
NoPayload == [upload_id |-> <<>>, audio_path |-> <<>>, cover_path |-> <<>>, song_id |-> 0,
              like_count |-> 0]

\* What held when the request arrived: whether the request's audio and cover
\* objects were in storage, the storage collaborator's mood, the songs table,
\* and who the session the request carried made the caller.
NoFacts == [audio_stored |-> FALSE, cover_stored |-> FALSE, storage |-> "", songs_before |-> {},
            caller |-> ""]

\* Who sent a request, as admin_required tells callers apart: "none" without a
\* session, "admin" when the session's email is ADMIN_EMAIL, "other" otherwise.
CallerOf(s) ==
    IF ~s.present THEN "none" ELSE IF s.email = ADMIN_EMAIL THEN "admin" ELSE "other"

\* The record of one request kept in `trace`: whether it carried a session, the
\* seconds that session had left and whether it held a refresh token, the
\* collaborator's answer to a refresh call (if one is made), the collaborator
\* calls in order with "view" marking the start of the view's body, the session
\* the view's body started with, and the response.
Served(endpoint, carried, t, ro, hook, res, ran) ==
    [endpoint |-> endpoint, carried |-> carried.present,
     remaining |-> carried.expires_at - t, has_refresh_token |-> carried.refresh_token # "",
     answer |-> ro.kind,
     events |-> hook.events \o (IF ran THEN <<"view">> ELSE <<>>) \o res.events,
     view_ran |-> ran, view_session |-> IF ran THEN hook.session ELSE NoSession,
     status |-> res.status, body |-> res.body,
     request |-> NoRequest, payload |-> NoPayload, facts |-> NoFacts]

NoTrace ==
    [endpoint |-> "", carried |-> FALSE, remaining |-> 0, has_refresh_token |-> FALSE,
     answer |-> "", events |-> <<>>,
     view_ran |-> FALSE, view_session |-> NoSession, status |-> 0, body |-> "",
     request |-> NoRequest, payload |-> NoPayload, facts |-> NoFacts]

\* Flask's dispatch of one request whose view changes nothing but the session:
\* the hook's redirect, or the decorated view's result. `guarded` is the result
\* of the view's decorators and body on the hook's session, `ran` whether the
\* body was entered.
Dispatch(endpoint, ro, guarded, ran) ==
    LET hook == refresh_token_if_needed(session, now, endpoint, ro)
    IN  IF hook.redirect # ""
        THEN /\ session' = hook.session
             /\ trace' = Served(endpoint, session, now, ro, hook,
                                Redirect(hook.session, hook.redirect), FALSE)
        ELSE /\ session' = guarded.session
             /\ trace' = Served(endpoint, session, now, ro, hook, guarded, ran)

\* The session the hook leaves for the view.
AfterHook(endpoint, ro) == refresh_token_if_needed(session, now, endpoint, ro).session

(***************************************************************************)
(* Views that touch only the session.                                      *)
(***************************************************************************)
\* login() POST with email and password given; so is sign_in_with_password's answer.
login(s, id, so) ==
    IF so.kind = "session"
    THEN [session |-> UserSession(id, so.access_token, so.refresh_token, so.expires_at),
          events |-> <<"auth.sign_in_with_password">>, status |-> 302, body |-> "index"]
    ELSE [session |-> s, events |-> <<"auth.sign_in_with_password">>,
          status |-> 302, body |-> "login"]

\* signup() POST with a valid form; so is sign_up's answer ("nouser": no user in it,
\* "none": a user without session, awaiting e-mail confirmation).
signup(s, id, so) ==
    IF so.kind = "session"
    THEN [session |-> UserSession(id, so.access_token, so.refresh_token, so.expires_at),
          events |-> <<"auth.sign_up">>, status |-> 302, body |-> "index"]
    ELSE [session |-> s, events |-> <<"auth.sign_up">>, status |-> 302,
          body |-> IF so.kind = "none" THEN "login" ELSE "signup"]

\* logout()
logout(s) ==
    [session |-> NoSession,
     events |-> IF s.present THEN <<"auth.sign_out">> ELSE <<>>,
     status |-> 302, body |-> "index"]

\* index(): reads songs, and the caller's likes when a client can be built.
index(s) ==
    [session |-> s,
     events |-> <<"table.songs.select">>
                \o (IF s.present /\ get_authenticated_client(s)
                    THEN <<"table.likes.select">> ELSE <<>>),
     status |-> 200, body |-> "index.html"]

\* Flask's static file view.
static(s) == [session |-> s, events |-> <<>>, status |-> 200, body |-> "static"]

\* upload_page(): renders the upload form.
upload_page(s) == [session |-> s, events |-> <<>>, status |-> 200, body |-> "upload.html"]

(***************************************************************************)
(* Idle values of the parts of the state a specification does not exercise.*)
(***************************************************************************)
SongIds == {1}
Workers == {"w1", "w2"}

NoLikes == [p \in Users \X SongIds |-> 0]
ZeroCounts == [s \in SongIds |-> 0]
IdleWorker == [pc |-> "idle", user |-> "", song |-> 0, existing |-> FALSE, is_liked |-> FALSE]
NoPair == [on |-> FALSE, user |-> "", song |-> 0, worker |-> "", n |-> 0,
           liked |-> FALSE, count |-> 0]
IdleCleanup == [pc |-> "idle", files |-> <<>>, db_paths |-> {}, i |-> 0, started |-> 0,
                deleted_count |-> 0, deleted |-> {}, failed |-> {}]
NoSan == [input |-> <<>>, output |-> <<>>, done |-> FALSE]

SessionIdle == now = 0 /\ session = NoSession
StoreIdle == music = {} /\ covers = {} /\ songs = {} /\ upload_seq = 0 /\ profiles = {}
LikesIdle == /\ likes = NoLikes /\ song_likes = ZeroCounts
             /\ lk = [w \in Workers |-> IdleWorker] /\ pair = NoPair
CleanupIdle == cl = IdleCleanup /\ removed = {}
SanIdle == san = NoSan

(***************************************************************************)
(* The session specification: one browser, its session cookie, the clock.  *)
(***************************************************************************)
SignUpOutcomes(t) ==
    AuthOutcomes(t)
    \cup {[kind |-> "nouser", access_token |-> "", refresh_token |-> "", expires_at |-> 0]}

Tick ==
    /\ now < MaxTicks * TickSeconds
    /\ now' = now + TickSeconds
    /\ UNCHANGED <<session, trace, storeVars, likeVars, cleanVars, san>>

Login ==
    \E ro \in AuthOutcomes(now), so \in AuthOutcomes(now), id \in Users :
        /\ Dispatch("login", ro, login(AfterHook("login", ro), id, so), TRUE)
        /\ UNCHANGED <<now, storeVars, likeVars, cleanVars, san>>

Signup ==
    \E ro \in AuthOutcomes(now), so \in SignUpOutcomes(now), id \in Users :
        /\ Dispatch("signup", ro, signup(AfterHook("signup", ro), id, so), TRUE)
        /\ UNCHANGED <<now, storeVars, likeVars, cleanVars, san>>

Logout ==
    \E ro \in AuthOutcomes(now) :
        /\ Dispatch("logout", ro, logout(AfterHook("logout", ro)), TRUE)
        /\ UNCHANGED <<now, storeVars, likeVars, cleanVars, san>>

Index ==
    \E ro \in AuthOutcomes(now) :
        /\ Dispatch("index", ro, index(AfterHook("index", ro)), TRUE)
        /\ UNCHANGED <<now, storeVars, likeVars, cleanVars, san>>

Static ==
    \E ro \in AuthOutcomes(now) :
        /\ Dispatch("static", ro, static(AfterHook("static", ro)), TRUE)
        /\ UNCHANGED <<now, storeVars, likeVars, cleanVars, san>>

UploadPage ==
    \E ro \in AuthOutcomes(now) :
        LET s == AfterHook("upload_page", ro)
        IN  /\ Dispatch("upload_page", ro, admin_required(s, upload_page(s)),
                        s.present /\ s.email = ADMIN_EMAIL)
            /\ UNCHANGED <<now, storeVars, likeVars, cleanVars, san>>

InitSession ==
    /\ SessionIdle /\ trace = NoTrace
    /\ StoreIdle /\ LikesIdle /\ CleanupIdle /\ SanIdle

NextSession == Tick \/ Login \/ Signup \/ Logout \/ Index \/ Static \/ UploadPage

SpecSession == InitSession /\ [][NextSession]_vars

(***************************************************************************)
(* Properties of the token manager (SpecSession).                          *)
(***************************************************************************)
\* Number of occurrences of event e in a request's events.
Count(events, e) == Cardinality({i \in 1..Len(events) : events[i] = e})

\* Every e among the events comes before the view's body starts.
BeforeView(events, e) ==
    \A i, j \in 1..Len(events) : (events[i] = e /\ events[j] = "view") => i < j

\* The last request carried a session expiring less than the buffer from then.
RefreshDue == trace.carried /\ trace.remaining < TOKEN_REFRESH_BUFFER

\* The due refresh of the last request failed: no refresh token to send, or the
\* collaborator raised or answered without a session.
RefreshFailed == RefreshDue /\ (~trace.has_refresh_token \/ trace.answer # "session")

\* C6 as stated: every request carrying a session whose expiry is less than the
\* refresh buffer away makes exactly one refresh call to the collaborator, and
\* makes it before the request's handler runs.
C6_ExactlyOneRefreshCall ==
    RefreshDue =>
        /\ Count(trace.events, "auth.refresh_session") = 1
        /\ BeforeView(trace.events, "auth.refresh_session")

\* C6 amended: such a request makes exactly one refresh call, before the handler
\* runs, when its session holds a refresh token, and no refresh call when the
\* session holds none.
C6_OneRefreshCallIfTokenHeld ==
    RefreshDue =>
        /\ trace.has_refresh_token => Count(trace.events, "auth.refresh_session") = 1
        /\ ~trace.has_refresh_token => Count(trace.events, "auth.refresh_session") = 0
        /\ BeforeView(trace.events, "auth.refresh_session")

C6_Witness ==
    /\ RefreshDue /\ trace.has_refresh_token /\ trace.view_ran
    /\ trace.events[1] = "auth.refresh_session"
    /\ Count(trace.events, "auth.refresh_session") = 1

\* C7: when a due refresh fails the session is destroyed; for an endpoint outside
\* login, signup, index and static the caller is redirected to login and the view
\* does not run; for one of those the view runs, starting without a session.
C7_FailedRefreshDestroysSession ==
    RefreshFailed =>
        IF trace.endpoint \notin {"login", "signup", "index", "static"}
        THEN /\ session = NoSession
             /\ trace.status = 302 /\ trace.body = "login"
             /\ ~trace.view_ran
        ELSE /\ trace.view_ran
             /\ trace.view_session = NoSession

C7_Witness ==
    /\ RefreshFailed /\ trace.answer = "raise" /\ trace.has_refresh_token
    /\ trace.endpoint = "upload_page"
    /\ trace.body = "login" /\ session = NoSession

(***************************************************************************)
(* Storage and the songs table.                                            *)
(***************************************************************************)
MaxUploads == 1      \* correlation ids request-upload may draw

MusicBucket == <<"m","u","s","i","c">>
CoversBucket == <<"c","o","v","e","r","s">>
AudiosDir == <<"a","u","d","i","o","s">>
PublicBase == <<"h","/","p","u","b","l","i","c","/">>

\* str(uuid.uuid4()): the n-th identifier drawn, distinct from all others.
IdChars == <<"1","2","3","4","5","6","7","8","9">>
IdText(n) == <<IdChars[n]>>

\* storage.from_(bucket).list(path=folder): the names of the objects in `folder`.
StorageList(bucket, folder) ==
    {basename(o.path) : o \in {x \in bucket : dirname(x.path) = folder}}

\* storage.from_(bucket).get_public_url(path)
get_public_url(bucketName, path) == PublicBase \o bucketName \o <<"/">> \o path

\* f"audios/{upload_id}_{safe_audio_name}" and f"{upload_id}_{safe_cover_name}"
audio_path_of(upload_id, safe_name) == AudiosDir \o <<"/">> \o upload_id \o <<"_">> \o safe_name
cover_path_of(upload_id, safe_name) == upload_id \o <<"_">> \o safe_name

\* The result of a JSON view: the state it leaves and its response.
Json(s, events, status, body, payload, seq, rows) ==
    [session |-> s, events |-> events, status |-> status, body |-> body,
     payload |-> payload, upload_seq |-> seq, songs |-> rows]

request_upload_no_cover_limit(s, data, seq, storage) ==
    IF data.audio_filename = <<>> \/ data.cover_filename = <<>>
    THEN Json(s, <<>>, 400, "Missing required fields", NoPayload, seq, songs)
    ELSE IF data.audio_size > MAX_AUDIO_SIZE
    THEN Json(s, <<>>, 400, "Audio too large", NoPayload, seq, songs)
    ELSE LET upload_id == IdText(seq + 1)
             audio_path == audio_path_of(upload_id, sanitize_filename(data.audio_filename))
             cover_path == cover_path_of(upload_id, sanitize_filename(data.cover_filename))
         IN  IF storage = "raise"
             THEN Json(s, <<"storage.music.create_signed_upload_url">>, 500,
                       "Could not generate upload URLs", NoPayload, seq + 1, songs)
             ELSE Json(s, <<"storage.music.create_signed_upload_url",
                            "storage.covers.create_signed_upload_url">>, 200, "",
                       [NoPayload EXCEPT !.upload_id = upload_id, !.audio_path = audio_path,
                                         !.cover_path = cover_path], seq + 1, songs)

\* request_upload(): data is the JSON body, seq the identifiers drawn so far,
\* storage whether the storage collaborator answers ("ok") or raises ("raise").
request_upload(s, data, seq, storage) ==
    IF data.audio_filename = <<>> \/ data.cover_filename = <<>>
    THEN Json(s, <<>>, 400, "Missing required fields", NoPayload, seq, songs)
    ELSE IF data.audio_size > MAX_AUDIO_SIZE
    THEN Json(s, <<>>, 400, "Audio too large", NoPayload, seq, songs)
    ELSE IF data.cover_size > MAX_COVER_SIZE
    THEN Json(s, <<>>, 400, "Cover too large", NoPayload, seq, songs)
    ELSE LET upload_id == IdText(seq + 1)
             audio_path == audio_path_of(upload_id, sanitize_filename(data.audio_filename))
             cover_path == cover_path_of(upload_id, sanitize_filename(data.cover_filename))
         IN  IF storage = "raise"
             THEN Json(s, <<"storage.music.create_signed_upload_url">>, 500,
                       "Could not generate upload URLs", NoPayload, seq + 1, songs)
             ELSE Json(s, <<"storage.music.create_signed_upload_url",
                            "storage.covers.create_signed_upload_url">>, 200, "",
                       [NoPayload EXCEPT !.upload_id = upload_id, !.audio_path = audio_path,
                                         !.cover_path = cover_path], seq + 1, songs)

\* song_data's "created_at": datetime.now(datetime.UTC).isoformat(). The name
\* `datetime` is the class imported by `from datetime import datetime, timedelta`,
\* and that class has no attribute UTC (UTC is an attribute of the module):
\* evaluating the argument raises AttributeError, before the insert.
created_at_raises == TRUE

\* The row finalize_upload inserts; the table assigns the next id.
song_row(rows, title, artist, featured, audio_url, cover_url, uploader, t) ==
    [id |-> Cardinality(rows) + 1, title |-> title, artist |-> artist,
     featured_artist |-> featured, audio_url |-> audio_url, cover_url |-> cover_url,
     uploader_id |-> uploader, streams |-> 0, likes |-> 0, created_at |-> t]

\* The tail of finalize_upload, from song_data on.
insert_song(s, data, seq, t) ==
    LET audio_url == get_public_url(MusicBucket, data.audio_path)
        cover_url == get_public_url(CoversBucket, data.cover_path)
        urls == <<"storage.music.get_public_url", "storage.covers.get_public_url">>
        row == song_row(songs, strip(data.title), strip(data.artist),
                        strip(data.featured_artist), audio_url, cover_url, s.id, t)
    IN  IF created_at_raises
        THEN Json(s, urls, 500, "Could not finalize upload", NoPayload, seq, songs)
        ELSE Json(s, urls \o <<"table.songs.insert">>, 200, "Song uploaded successfully!",
                  [NoPayload EXCEPT !.song_id = row.id], seq, songs \cup {row})

finalize_upload_audio_only(s, data, seq, storage, t) ==
    IF \/ strip(data.title) = <<>> \/ strip(data.artist) = <<>>
       \/ data.audio_path = <<>> \/ data.cover_path = <<>> \/ data.upload_id = <<>>
    THEN Json(s, <<>>, 400, "Missing required fields", NoPayload, seq, songs)
    ELSE IF storage = "raise"
    THEN Json(s, <<"storage.music.list">>, 500, "Could not verify files", NoPayload, seq, songs)
    ELSE LET audio_info == StorageList(music, dirname(data.audio_path))
             audio_exists == \E f \in audio_info : f = basename(data.audio_path)
             lists == <<"storage.music.list", "storage.covers.list">>
         IN  IF ~audio_exists
             THEN Json(s, lists, 400, "File verification failed", NoPayload, seq, songs)
             ELSE LET r == insert_song(s, data, seq, t)
                  IN  [r EXCEPT !.events = lists \o r.events]

\* finalize_upload()
finalize_upload(s, data, seq, storage, t) ==
    IF \/ strip(data.title) = <<>> \/ strip(data.artist) = <<>>
       \/ data.audio_path = <<>> \/ data.cover_path = <<>> \/ data.upload_id = <<>>
    THEN Json(s, <<>>, 400, "Missing required fields", NoPayload, seq, songs)
    ELSE IF storage = "raise"
    THEN Json(s, <<"storage.music.list">>, 500, "Could not verify files", NoPayload, seq, songs)
    ELSE LET audio_info == StorageList(music, dirname(data.audio_path))
             cover_info == StorageList(covers, dirname(data.cover_path))
             audio_exists == \E f \in audio_info : f = basename(data.audio_path)
             cover_exists == \E f \in cover_info : f = basename(data.cover_path)
             lists == <<"storage.music.list", "storage.covers.list">>
         IN  IF ~audio_exists \/ ~cover_exists
             THEN Json(s, lists, 400, "File verification failed", NoPayload, seq, songs)
             ELSE LET r == insert_song(s, data, seq, t)
                  IN  [r EXCEPT !.events = lists \o r.events]

admin_only_any_user(s, seq, view) ==
    IF ~s.present THEN Json(s, <<>>, 302, "login", NoPayload, seq, songs)
    ELSE view

\* admin_required around a JSON view.
admin_only(s, seq, view) ==
    IF ~s.present THEN Json(s, <<>>, 302, "login", NoPayload, seq, songs)
    ELSE IF s.email # ADMIN_EMAIL THEN Json(s, <<>>, 302, "index", NoPayload, seq, songs)
    ELSE view

\* Flask's dispatch of an upload request: the hook, admin_required, the view.
DispatchUpload(endpoint, ro, data, storage, guarded) ==
    LET hook == refresh_token_if_needed(session, now, endpoint, ro)
        blocked == hook.redirect # ""
        res == IF blocked
               THEN Json(hook.session, <<>>, 302, hook.redirect, NoPayload, upload_seq, songs)
               ELSE guarded
        ran == ~blocked /\ hook.session.present /\ hook.session.email = ADMIN_EMAIL
    IN  /\ session' = res.session
        /\ upload_seq' = res.upload_seq
        /\ songs' = res.songs
        /\ trace' = [Served(endpoint, session, now, ro, hook, res, ran) EXCEPT
                        !.request = data, !.payload = res.payload,
                        !.facts = [audio_stored |-> \E o \in music : o.path = data.audio_path,
                                   cover_stored |-> \E o \in covers : o.path = data.cover_path,
                                   storage |-> storage, songs_before |-> songs,
                                   caller |-> CallerOf(session)]]

(***************************************************************************)
(* The upload specification: one browser driving the three phases.         *)
(***************************************************************************)
UploadNames == {<<>>, <<"m","y"," ","s",".","m">>}
CoverNames == {<<>>, <<"c",".","p">>}
AudioSizes == {0, MAX_AUDIO_SIZE, MAX_AUDIO_SIZE + 1}
CoverSizes == {MAX_COVER_SIZE, MAX_COVER_SIZE + 1}

\* The refresh answers drawn in this specification.
UploadAuthOutcomes(t) ==
    {o \in AuthOutcomes(t) :
        o.kind = "raise" \/ (o.refresh_token = "rt" /\ o.expires_at = t + TOKEN_REFRESH_BUFFER)}

\* The paths request-upload has signed so far.
SignedAudioPaths ==
    {audio_path_of(IdText(n), sanitize_filename(f)) :
        n \in 1..upload_seq, f \in UploadNames \ {<<>>}}
SignedCoverPaths ==
    {cover_path_of(IdText(n), sanitize_filename(f)) :
        n \in 1..upload_seq, f \in CoverNames \ {<<>>}}

\* A path no upload was signed for.
ForeignPath == <<"z">>

\* The bodies a client sends to finalize-upload: complete ones, and complete
\* ones with one field left out or blank.
FinalizeBodies ==
    LET full == {[NoRequest EXCEPT !.title = <<" ","T">>, !.artist = <<"A">>,
                                   !.featured_artist = f, !.audio_path = a,
                                   !.cover_path = c, !.upload_id = IdText(1)] :
                    f \in {<<>>, <<"F">>},
                    a \in SignedAudioPaths \cup {ForeignPath},
                    c \in SignedCoverPaths \cup {ForeignPath}}
        one == CHOOSE b \in full : TRUE
    IN  full \cup {[one EXCEPT !.title = <<" ">>], [one EXCEPT !.artist = <<>>],
                   [one EXCEPT !.audio_path = <<>>], [one EXCEPT !.cover_path = <<>>],
                   [one EXCEPT !.upload_id = <<>>]}

RequestUpload ==
    \E ro \in UploadAuthOutcomes(now), storage \in {"ok", "raise"},
       af \in UploadNames, cf \in CoverNames, asz \in AudioSizes, csz \in CoverSizes :
        LET data == [NoRequest EXCEPT !.audio_filename = af, !.cover_filename = cf,
                                      !.audio_size = asz, !.cover_size = csz]
            s == AfterHook("request_upload", ro)
        IN  /\ upload_seq < MaxUploads
            /\ DispatchUpload("request_upload", ro, data, storage,
                              admin_only(s, upload_seq, request_upload(s, data, upload_seq, storage)))
            /\ UNCHANGED <<now, music, covers, profiles, likeVars, cleanVars, san>>

\* Phase 2, by the client: a PUT to a signed upload URL creates the object.
ClientUpload ==
    /\ \/ \E p \in SignedAudioPaths :
            /\ \A o \in music : o.path # p
            /\ music' = music \cup {[path |-> p, created_at |-> now]}
            /\ UNCHANGED covers
       \/ \E p \in SignedCoverPaths :
            /\ \A o \in covers : o.path # p
            /\ covers' = covers \cup {[path |-> p, created_at |-> now]}
            /\ UNCHANGED music
    /\ UNCHANGED <<now, session, trace, songs, upload_seq, profiles, likeVars, cleanVars, san>>

FinalizeUpload ==
    \E ro \in UploadAuthOutcomes(now), storage \in {"ok", "raise"}, data \in FinalizeBodies :
        LET s == AfterHook("finalize_upload", ro)
        IN  /\ DispatchUpload("finalize_upload", ro, data, storage,
                              admin_only(s, upload_seq,
                                         finalize_upload(s, data, upload_seq, storage, now)))
            /\ UNCHANGED <<now, music, covers, profiles, likeVars, cleanVars, san>>

\* The browser arrives with no session, or with one a login gave it: at time 0
\* (due for refresh by now) or just now.
Init ==
    /\ now = TOKEN_REFRESH_BUFFER
    /\ session \in {NoSession}
                   \cup {UserSession(id, "at", "rt", e) :
                            id \in Users, e \in {TOKEN_REFRESH_BUFFER, now + TOKEN_REFRESH_BUFFER}}
    /\ trace = NoTrace
    /\ StoreIdle /\ LikesIdle /\ CleanupIdle /\ SanIdle

Next == RequestUpload \/ ClientUpload \/ FinalizeUpload

Spec == Init /\ [][Next]_vars

(***************************************************************************)
(* Properties of the upload flow (Spec).                                   *)
(***************************************************************************)
StorageCalls == {"storage.music.create_signed_upload_url",
                 "storage.covers.create_signed_upload_url",
                 "storage.music.list", "storage.covers.list",
                 "storage.music.get_public_url", "storage.covers.get_public_url"}
TableCalls == {"table.songs.insert", "table.songs.select", "table.likes.select"}

\* The last request entered finalize_upload's body with every required field
\* given and the storage collaborator answering.
FinalizeChecked ==
    /\ trace.endpoint = "finalize_upload" /\ trace.view_ran
    /\ strip(trace.request.title) # <<>> /\ strip(trace.request.artist) # <<>>
    /\ trace.request.audio_path # <<>> /\ trace.request.cover_path # <<>>
    /\ trace.request.upload_id # <<>>
    /\ trace.facts.storage = "ok"

\* C1: a finalize-upload call by the administrator with all fields given and
\* both objects in storage creates exactly one Song row with streams = 0,
\* likes = 0, the caller as uploader and the public URLs of the two paths, and
\* returns the new row's identifier.
C1_FinalizeCreatesSong ==
    (FinalizeChecked /\ trace.facts.audio_stored /\ trace.facts.cover_stored) =>
        /\ trace.status = 200
        /\ \E row \in songs :
            /\ row \notin trace.facts.songs_before
            /\ songs = trace.facts.songs_before \cup {row}
            /\ row.streams = 0 /\ row.likes = 0
            /\ row.uploader_id = trace.view_session.id
            /\ row.audio_url = get_public_url(MusicBucket, trace.request.audio_path)
            /\ row.cover_url = get_public_url(CoversBucket, trace.request.cover_path)
            /\ trace.payload.song_id = row.id

\* C2: a finalize-upload call whose audio object or cover object is not in
\* storage fails with the verification error and leaves the songs table as it
\* was, without issuing an insert.
C2_AbsentObjectWritesNothing ==
    (FinalizeChecked /\ (~trace.facts.audio_stored \/ ~trace.facts.cover_stored)) =>
        /\ trace.status = 400 /\ trace.body = "File verification failed"
        /\ songs = trace.facts.songs_before
        /\ Count(trace.events, "table.songs.insert") = 0

C2_Witness ==
    /\ FinalizeChecked /\ trace.facts.audio_stored /\ ~trace.facts.cover_stored
    /\ trace.request.cover_path \in SignedCoverPaths
    /\ trace.status = 400 /\ trace.body = "File verification failed"

\* C3: a request-upload call with a filename missing, an audio size above
\* MAX_AUDIO_SIZE or a cover size above MAX_COVER_SIZE fails with a validation
\* error and issues no storage call and no table call.
C3_InvalidRequestCallsNothing ==
    (/\ trace.endpoint = "request_upload" /\ trace.view_ran
     /\ \/ trace.request.audio_filename = <<>> \/ trace.request.cover_filename = <<>>
        \/ trace.request.audio_size > 50 * 1024 * 1024
        \/ trace.request.cover_size > 10 * 1024 * 1024) =>
        /\ trace.status = 400
        /\ trace.body \in {"Missing required fields", "Audio too large", "Cover too large"}
        /\ \A i \in 1..Len(trace.events) : trace.events[i] \notin StorageCalls \cup TableCalls
        /\ trace.payload = NoPayload

C3_Witness ==
    /\ trace.endpoint = "request_upload" /\ trace.view_ran
    /\ trace.request.audio_filename # <<>> /\ trace.request.cover_filename # <<>>
    /\ trace.request.audio_size = 50 * 1024 * 1024
    /\ trace.request.cover_size = 10 * 1024 * 1024 + 1
    /\ trace.status = 400 /\ trace.body = "Cover too large"
    /\ trace.facts.storage = "ok"

\* The last request was sent to one of the two upload endpoints.
UploadCall == trace.endpoint \in {"request_upload", "finalize_upload"}

\* The last request made no storage call and wrote nothing to the database,
\* and the handler's body did not run.
NothingDone ==
    /\ ~trace.view_ran
    /\ \A i \in 1..Len(trace.events) : trace.events[i] \notin StorageCalls
    /\ Count(trace.events, "table.songs.insert") = 0
    /\ songs = trace.facts.songs_before

\* C11 as stated: request-upload and finalize-upload make no storage call and
\* no database write unless the request carries a session whose email is the
\* administrator's; a caller with no session is redirected to login and a
\* non-admin caller is redirected to home, the handler body running in neither case.
C11_AdminGate ==
    UploadCall =>
        /\ trace.facts.caller # "admin" => NothingDone
        /\ trace.facts.caller = "none" => (trace.status = 302 /\ trace.body = "login")
        /\ trace.facts.caller = "other" => (trace.status = 302 /\ trace.body = "index")

\* C11 amended: as above, except that a non-admin caller whose session is due
\* for refresh and whose refresh fails loses the session in the before-request
\* hook and is redirected to login; every other non-admin caller is redirected
\* to home.
C11_AdminGateAfterRefresh ==
    UploadCall =>
        /\ trace.facts.caller # "admin" => NothingDone
        /\ trace.facts.caller = "none" => (trace.status = 302 /\ trace.body = "login")
        /\ trace.facts.caller = "other" =>
              /\ trace.status = 302
              /\ trace.body = IF RefreshFailed THEN "login" ELSE "index"

C11_Witness ==
    /\ trace.endpoint = "request_upload" /\ trace.facts.caller = "other"
    /\ trace.request.audio_filename # <<>> /\ trace.request.cover_filename # <<>>
    /\ trace.request.audio_size = 0 /\ trace.request.cover_size = 10 * 1024 * 1024
    /\ trace.facts.storage = "ok"
    /\ RefreshDue /\ ~RefreshFailed
    /\ trace.status = 302 /\ trace.body = "index" /\ session.present

(***************************************************************************)
(* The sanitizer specification: request_upload's sanitize_filename applied *)
(* to every filename over a small alphabet.                                *)
(***************************************************************************)
NameAlphabet == {"a", "Z", "7", "_", "-", ".", "/", " ", "!"}
FileNames == TextsUpTo(NameAlphabet, MaxNameLen) \ {<<>>}

SanitizeName ==
    /\ ~san.done
    /\ san' = [san EXCEPT !.output = sanitize_filename(san.input), !.done = TRUE]
    /\ UNCHANGED <<sessVars, trace, storeVars, likeVars, cleanVars>>

InitSanitize ==
    /\ san \in {[input |-> f, output |-> <<>>, done |-> FALSE] : f \in FileNames}
    /\ SessionIdle /\ trace = NoTrace /\ StoreIdle /\ LikesIdle /\ CleanupIdle

NextSanitize == SanitizeName

SpecSanitize == InitSanitize /\ [][NextSanitize]_vars

\* Where the extension of f starts, Len(f) + 1 when it has none: at the last
\* dot of f, if no '/' follows it and, in the same path component, a character
\* other than a dot precedes it.
ExtensionStart(f) ==
    LET ks == {k \in 1..Len(f) :
                /\ f[k] = "."
                /\ \A j \in (k + 1)..Len(f) : f[j] \notin {".", "/"}
                /\ \E i \in 1..(k - 1) :
                    f[i] # "." /\ \A j \in i..k : f[j] # "/"}
    IN  IF ks = {} THEN Len(f) + 1 ELSE CHOOSE k \in ks : TRUE

\* C8: the sanitized filename has the input's length; in its name portion every
\* character is in [A-Za-z0-9_-], a character of that class being kept and any
\* other replaced by '_'; its extension is the input's, unchanged.
C8_SanitizedName ==
    san.done =>
        LET k == ExtensionStart(san.input)
        IN  /\ Len(san.output) = Len(san.input)
            /\ \A i \in 1..(k - 1) :
                /\ san.output[i] \in SafeChars
                /\ san.input[i] \in SafeChars => san.output[i] = san.input[i]
                /\ san.input[i] \notin SafeChars => san.output[i] = "_"
            /\ \A i \in k..Len(san.input) : san.output[i] = san.input[i]
            /\ ExtensionStart(san.output) = k

C8_Witness ==
    /\ san.done
    /\ san.input = <<"!", ".", "7">>
    /\ san.output = <<"_", ".", "7">>

(***************************************************************************)
(* The like toggle. Each worker serves one like_song request at a time;    *)
(* every collaborator call of the view is a step of its own, so requests   *)
(* of different workers interleave between calls.                          *)
(***************************************************************************)
MaxCount == 3        \* like requests start only while |songs.likes| stays within it

\* insert into likes without a key on (user_id, song_id).
table_likes_insert_no_key(rows, user, song) ==
    [ok |-> TRUE, rows |-> [rows EXCEPT ![<<user, song>>] = @ + 1]]

\* table('likes').insert(...): the table's key is (user_id, song_id), so the
\* insert of a pair already there raises.
table_likes_insert(rows, user, song) ==
    IF rows[<<user, song>>] > 0
    THEN [ok |-> FALSE, rows |-> rows]
    ELSE [ok |-> TRUE, rows |-> [rows EXCEPT ![<<user, song>>] = @ + 1]]

\* table('likes').delete().eq('user_id', ..).eq('song_id', ..)
table_likes_delete(rows, user, song) == [rows EXCEPT ![<<user, song>>] = 0]

\* The select without its filter on user_id: any user's like of the song counts.
table_likes_exists_any_user(rows, user, song) == \E u \in Users : rows[<<u, song>>] > 0

\* table('likes').select('*').eq('user_id', ..).eq('song_id', ..): existing.data
\* is non-empty.
table_likes_exists(rows, user, song) == rows[<<user, song>>] > 0

\* The stored procedures increment_likes / decrement_likes: one SQL update of
\* songs.likes by +1 / -1.
increment_likes(counts, song) == [counts EXCEPT ![song] = @ + 1]
decrement_likes(counts, song) == [counts EXCEPT ![song] = @ - 1]

like_counter_rpc_always_increment(existing) == "increment_likes"

\* The procedure like_song calls after changing the likes table.
like_counter_rpc(existing) ==
    IF existing THEN "decrement_likes" ELSE "increment_likes"

\* The sessions like requests carry in this specification: none, or a user's,
\* not due for refresh, with or without access token.
LikeSessions ==
    {NoSession}
    \cup {UserSession(u, a, "rt", now + TOKEN_REFRESH_BUFFER) : u \in Users, a \in AccessTokens}

NoAnswer == [kind |-> "none", access_token |-> "", refresh_token |-> "", expires_at |-> 0]

\* The response of like_song.
LikeResponse(s, status, body, ran, count) ==
    LET hook == refresh_token_if_needed(s, now, "like_song", NoAnswer)
        res == [session |-> s, events |-> <<>>, status |-> status, body |-> body]
    IN  [Served("like_song", s, now, NoAnswer, hook, res, ran) EXCEPT
            !.payload = [NoPayload EXCEPT !.like_count = count]]

Busy(w, song) == lk[w].pc # "idle" /\ lk[w].song = song

\* The observer when worker w starts a toggle of (user, song): it follows the
\* second of two consecutive toggles, or starts over with this one, provided
\* no other request is at work on the song.
PairAtStart(w, user, song) ==
    IF \E v \in Workers \ {w} : Busy(v, song) THEN NoPair
    ELSE IF pair.on /\ pair.n = 1 /\ pair.user = user /\ pair.song = song
         THEN [pair EXCEPT !.worker = w]
         ELSE [on |-> TRUE, user |-> user, song |-> song, worker |-> w, n |-> 0,
               liked |-> likes[<<user, song>>] > 0, count |-> song_likes[song]]

\* like_song up to and including the select of the existing like.
LikeStart(w) ==
    \E s \in LikeSessions, song \in SongIds :
        LET hook == refresh_token_if_needed(s, now, "like_song", NoAnswer)
            user == hook.session.id
        IN  /\ lk[w].pc = "idle"
            /\ IF hook.redirect # "" \/ ~hook.session.present
               THEN /\ trace' = LikeResponse(s, 302, "login", FALSE, 0)
                    /\ UNCHANGED <<lk, pair>>
               ELSE IF ~get_authenticated_client(hook.session)
               THEN /\ trace' = LikeResponse(s, 401, "Authentication required", TRUE, 0)
                    /\ UNCHANGED <<lk, pair>>
               ELSE /\ song_likes[song] + Cardinality({v \in Workers : Busy(v, song)}) < MaxCount
                    /\ song_likes[song] - Cardinality({v \in Workers : Busy(v, song)}) > -MaxCount
                    /\ lk' = [lk EXCEPT ![w] =
                                [pc |-> "branch", user |-> user, song |-> song,
                                 existing |-> table_likes_exists(likes, user, song),
                                 is_liked |-> FALSE]]
                    /\ pair' = PairAtStart(w, user, song)
                    /\ UNCHANGED trace
            /\ UNCHANGED <<sessVars, storeVars, likes, song_likes, cleanVars, san>>

\* The delete (unlike) or the insert (like) of the likes row.
LikeMutate(w) ==
    /\ lk[w].pc = "branch"
    /\ IF lk[w].existing
       THEN /\ likes' = table_likes_delete(likes, lk[w].user, lk[w].song)
            /\ lk' = [lk EXCEPT ![w].pc = "rpc", ![w].is_liked = FALSE]
            /\ UNCHANGED <<trace, pair>>
       ELSE LET r == table_likes_insert(likes, lk[w].user, lk[w].song)
            IN  IF r.ok
                THEN /\ likes' = r.rows
                     /\ lk' = [lk EXCEPT ![w].pc = "rpc", ![w].is_liked = TRUE]
                     /\ UNCHANGED <<trace, pair>>
                ELSE \* except Exception: the error fragment, status 500
                     /\ likes' = likes
                     /\ lk' = [lk EXCEPT ![w] = IdleWorker]
                     /\ trace' = [NoTrace EXCEPT !.endpoint = "like_song", !.carried = TRUE,
                                                 !.view_ran = TRUE, !.status = 500,
                                                 !.body = "Error"]
                     /\ pair' = IF pair.worker = w THEN NoPair ELSE pair
    /\ UNCHANGED <<sessVars, storeVars, song_likes, cleanVars, san>>

\* The counter procedure.
LikeRpc(w) ==
    /\ lk[w].pc = "rpc"
    /\ song_likes' = IF like_counter_rpc(lk[w].existing) = "decrement_likes"
                     THEN decrement_likes(song_likes, lk[w].song)
                     ELSE increment_likes(song_likes, lk[w].song)
    /\ lk' = [lk EXCEPT ![w].pc = "read"]
    /\ UNCHANGED <<sessVars, trace, storeVars, likes, pair, cleanVars, san>>

\* The select of the updated count and the HTML fragment.
LikeRead(w) ==
    /\ lk[w].pc = "read"
    /\ trace' = [NoTrace EXCEPT !.endpoint = "like_song", !.carried = TRUE,
                                !.view_ran = TRUE, !.status = 200,
                                !.body = IF lk[w].is_liked THEN "fas" ELSE "far",
                                !.payload = [NoPayload EXCEPT
                                                !.like_count = song_likes[lk[w].song]]]
    /\ pair' = IF pair.on /\ pair.worker = w
               THEN [pair EXCEPT !.n = @ + 1, !.worker = ""]
               ELSE pair
    /\ lk' = [lk EXCEPT ![w] = IdleWorker]
    /\ UNCHANGED <<sessVars, storeVars, likes, song_likes, cleanVars, san>>

InitLike ==
    /\ SessionIdle /\ trace = NoTrace /\ StoreIdle /\ LikesIdle /\ CleanupIdle /\ SanIdle

NextLike ==
    \E w \in Workers : LikeStart(w) \/ LikeMutate(w) \/ LikeRpc(w) \/ LikeRead(w)

SpecLike == InitLike /\ [][NextLike]_vars

(***************************************************************************)
(* Properties of the like toggle (SpecLike).                               *)
(***************************************************************************)
\* C4: two consecutive toggles of one (user, song), with no other request at
\* work on the song from the start of the first to the end of the second,
\* leave the Like row present or absent as it was and songs.likes as it was.
C4_TwoTogglesRestore ==
    (pair.on /\ pair.n = 2) =>
        /\ (likes[<<pair.user, pair.song>>] > 0) = pair.liked
        /\ song_likes[pair.song] = pair.count

C4_Witness ==
    /\ pair.on /\ pair.n = 2 /\ pair.liked /\ pair.count = 0
    /\ likes[<<pair.user, pair.song>>] = 1
    /\ song_likes[pair.song] = 0

RECURSIVE SumRows(_, _)
SumRows(us, song) ==
    IF us = {} THEN 0
    ELSE LET u == CHOOSE x \in us : TRUE
         IN  likes[<<u, song>>] + SumRows(us \ {u}, song)

LikeRows(song) == SumRows(Users, song)

\* No like request is in flight.
Quiescent == \A w \in Workers : lk[w].pc = "idle"

\* C13: two concurrent toggles of one (user, song) can interleave so that, after
\* both have completed, songs.likes differs from the number of Like rows of the
\* song (the state C13_Witness, which is reached). Interleaving is what it
\* takes: one toggle that completes with no other request at work on the song
\* flips the user's Like row and moves songs.likes by one in the same direction,
\* so it leaves the difference between the counter and the rows as it was.
C13_LoneToggleKeepsDifference ==
    (pair.on /\ pair.n = 1 /\ pair.worker = "") =>
        /\ (likes[<<pair.user, pair.song>>] > 0) = ~pair.liked
        /\ song_likes[pair.song] = pair.count + (IF pair.liked THEN -1 ELSE 1)

\* Both requests have completed, the last with its fragment; the rows of the
\* song are gone and its counter is one below zero: the two requests both
\* found the user's row, both deleted and both decremented.
C13_Witness ==
    /\ Quiescent
    /\ trace.endpoint = "like_song" /\ trace.status = 200 /\ trace.body = "far"
    /\ \E song \in SongIds :
        /\ LikeRows(song) = 0
        /\ song_likes[song] = -1
        /\ song_likes[song] # LikeRows(song)

\* C14: songs.likes of every song is a non-negative integer in every reachable
\* state, whatever the order and interleaving of like toggles.
C14_CounterNonNegative ==
    \A song \in SongIds : song_likes[song] \in Nat

(***************************************************************************)
(* The orphan cleanup command. The listing and the select open the run;    *)
(* each file of the listing is then a step of its own, so time passes and  *)
(* objects arrive between the steps.                                       *)
(***************************************************************************)
GraceSeconds == 86400      \* timedelta(days=1)
HalfDay == 43200           \* seconds the clock advances per CleanupTick
MaxCleanupTicks == 3

MusicMarker == <<"/">> \o MusicBucket \o <<"/">>

\* The index of the first occurrence of text m in u, 0 when there is none.
FindText(u, m) ==
    LET hits == {i \in 1..(Len(u) - Len(m) + 1) : SubSeq(u, i, i + Len(m) - 1) = m}
    IN  IF hits = {} THEN 0 ELSE CHOOSE i \in hits : \A j \in hits : i <= j

\* u.split(m)[-1]: what follows the last of the occurrences of m found from
\* left to right.
RECURSIVE SplitLast(_, _)
SplitLast(u, m) ==
    LET i == FindText(u, m)
    IN  IF i = 0 THEN u ELSE SplitLast(SubSeq(u, i + Len(m), Len(u)), m)

db_paths_of_whole_urls(rows) == {row.audio_url : row \in rows}

\* db_paths: url.split('/music/')[-1] of every row whose audio_url contains
\* '/music/', when that is not empty.
db_paths_of(rows) ==
    {SplitLast(row.audio_url, MusicMarker) :
        row \in {r \in rows : /\ FindText(r.audio_url, MusicMarker) # 0
                              /\ SplitLast(r.audio_url, MusicMarker) # <<>>}}

\* age > timedelta(days=1), for a file created at `created` seen at time t.
is_orphan_old(created, t) == (t - created) > GraceSeconds

\* The objects kept in the music bucket in this specification, at the bucket's
\* root (where list() looks) and under audios/.
CleanupPaths == {<<"x">>, <<"y">>, AudiosDir \o <<"/">> \o <<"x">>}

\* Song rows found in the table: one per referenced object, and one whose
\* audio_url is not a URL of the music bucket.
ExistingSongs ==
    {song_row({}, <<"T">>, <<"A">>, <<>>, get_public_url(MusicBucket, <<"x">>),
              get_public_url(CoversBucket, <<"c">>), "admin", 0),
     song_row({1}, <<"T">>, <<"A">>, <<>>,
              get_public_url(MusicBucket, AudiosDir \o <<"/">> \o <<"x">>),
              get_public_url(CoversBucket, <<"c">>), "admin", 0),
     song_row({1, 2}, <<"T">>, <<"A">>, <<>>, <<"h","/","e">>,
              get_public_url(CoversBucket, <<"c">>), "admin", 0)}

\* The orders in which list() may return a set of entries.
Orderings(S) ==
    {f \in [1..Cardinality(S) -> S] : \A i, j \in 1..Cardinality(S) : f[i] = f[j] => i = j}

\* The object at a bucket-relative path is the audio of some Song row.
Referenced(path) ==
    \E row \in songs : row.audio_url = get_public_url(MusicBucket, path)

CleanupTick ==
    /\ now < MaxCleanupTicks * HalfDay
    /\ now' = now + HalfDay
    /\ UNCHANGED <<session, trace, storeVars, likeVars, cleanVars, san>>

\* An object arrives in the music bucket.
StoreObject ==
    \E p \in CleanupPaths :
        /\ \A o \in music : o.path # p
        /\ music' = music \cup {[path |-> p, created_at |-> now]}
        /\ UNCHANGED <<sessVars, trace, covers, songs, upload_seq, profiles, likeVars, cleanVars, san>>

\* storage.from_('music').list() and table('songs').select('audio_url'); either
\* may raise, which ends the run in the function's except clause.
CleanupStart ==
    /\ cl.pc \in {"idle", "done", "failed"}
    /\ \/ \E files \in Orderings({[name |-> basename(o.path), created_at |-> o.created_at] :
                                    o \in {x \in music : dirname(x.path) = <<>>}}) :
            cl' = [pc |-> "loop", files |-> files, db_paths |-> db_paths_of(songs), i |-> 1,
                   started |-> now, deleted_count |-> 0, deleted |-> {}, failed |-> {}]
       \/ cl' = [IdleCleanup EXCEPT !.pc = "failed", !.started = now]
    /\ UNCHANGED <<sessVars, trace, storeVars, likeVars, removed, san>>

\* One iteration of `for file in storage_files`; remove() may raise, and the
\* exception leaves the loop for the function's except clause.
CleanupStep ==
    /\ cl.pc = "loop" /\ cl.i <= Len(cl.files)
    /\ LET file == cl.files[cl.i]
           stored == {o \in music : o.path = file.name}
       IN  IF file.name \notin cl.db_paths /\ is_orphan_old(file.created_at, now)
           THEN \/ /\ music' = music \ stored
                   /\ removed' = removed \cup
                        {[name |-> o.path, age |-> now - o.created_at,
                          referenced |-> Referenced(o.path)] : o \in stored}
                   /\ cl' = [cl EXCEPT !.i = @ + 1, !.deleted_count = @ + 1,
                                       !.deleted = @ \cup {file.name}]
                \/ /\ cl' = [cl EXCEPT !.pc = "failed", !.failed = @ \cup {file.name}]
                   /\ UNCHANGED <<music, removed>>
           ELSE /\ cl' = [cl EXCEPT !.i = @ + 1]
                /\ UNCHANGED <<music, removed>>
    /\ UNCHANGED <<sessVars, trace, covers, songs, upload_seq, profiles, likeVars, san>>

\* "Cleanup complete."
CleanupFinish ==
    /\ cl.pc = "loop" /\ cl.i > Len(cl.files)
    /\ cl' = [cl EXCEPT !.pc = "done"]
    /\ UNCHANGED <<sessVars, trace, storeVars, likeVars, removed, san>>

InitCleanup ==
    /\ SessionIdle /\ trace = NoTrace
    /\ music = {} /\ covers = {} /\ upload_seq = 0 /\ profiles = {}
    /\ songs \in SUBSET ExistingSongs
    /\ LikesIdle /\ CleanupIdle /\ SanIdle

NextCleanup == CleanupTick \/ StoreObject \/ CleanupStart \/ CleanupStep \/ CleanupFinish

SpecCleanup == InitCleanup /\ [][NextCleanup]_vars

(***************************************************************************)
(* Properties of the orphan cleanup (SpecCleanup).                         *)
(***************************************************************************)
\* C5: every object the cleanup removed was, when removed, older than one day
\* and not the audio of any Song row.
C5_RemovesOnlyOldOrphans ==
    \A d \in removed : d.age > 86400 /\ ~d.referenced

\* A run that removed an orphan and passed over a referenced object as old.
C5_Witness ==
    /\ cl.pc = "done" /\ cl.deleted # {}
    /\ \E o \in music :
        /\ Referenced(o.path) /\ now - o.created_at > 86400
        /\ \E k \in 1..Len(cl.files) : cl.files[k].name = o.path

\* C10: when the removal of one object raises, the run goes on: at the end of
\* the run every listed object that was unreferenced and older than one day
\* when the run started, other than those whose removal raised, is removed.
C10_RunContinuesPastError ==
    cl.pc \in {"done", "failed"} =>
        \A k \in 1..Len(cl.files) :
            (/\ ~Referenced(cl.files[k].name)
             /\ cl.started - cl.files[k].created_at > 86400
             /\ cl.files[k].name \notin cl.failed)
            => cl.files[k].name \in cl.deleted

(***************************************************************************)
(* The profile page. Rows of the profiles table exist for the accounts the *)
(* collaborator made them for; the page is visited by one browser.         *)
(***************************************************************************)
\* profile(): rows is the profiles table, lks the likes table, co whether the
\* data collaborator answers ("ok") or raises ("raise"). Without a client
\* (get_authenticated_client() returned None) the first table call raises
\* AttributeError; every exception ends in the rendered page without profile.
profile(s, rows, lks, co) ==
    IF ~get_authenticated_client(s)
    THEN [session |-> s, events |-> <<>>, status |-> 200, body |-> "profile.html"]
    ELSE IF co = "raise"
    THEN [session |-> s, events |-> <<"table.profiles.select">>,
          status |-> 200, body |-> "profile.html"]
    ELSE IF s.id \notin rows
    THEN [session |-> s, events |-> <<"table.profiles.select">>,
          status |-> 302, body |-> "index"]
    ELSE LET liked_song_ids == {g \in SongIds : lks[<<s.id, g>>] > 0}
         IN  [session |-> s,
              events |-> <<"table.profiles.select", "table.likes.select">>
                         \o (IF liked_song_ids # {} THEN <<"table.songs.select">> ELSE <<>>),
              status |-> 200, body |-> "profile.html"]

\* The sessions a browser may hold when it comes to the profile page.
ProfileSessions ==
    {NoSession} \cup {UserSession(id, at, rt, e) :
                        id \in Users, at \in AccessTokens, rt \in RefreshTokens, e \in ExpiresIn}

\* The likes tables the page may find: any set of (user, song) rows.
LikeTables == [Users \X SongIds -> {0, 1}]

\* GET /profile
Profile ==
    \E ro \in AuthOutcomes(now), co \in {"ok", "raise"} :
        LET s == AfterHook("profile", ro)
        IN  /\ Dispatch("profile", ro, login_required(s, profile(s, profiles, likes, co)),
                        s.present)
            /\ UNCHANGED <<now, storeVars, likeVars, cleanVars, san>>

InitProfile ==
    /\ now = 0 /\ session \in ProfileSessions /\ trace = NoTrace
    /\ music = {} /\ covers = {} /\ songs = {} /\ upload_seq = 0
    /\ profiles \in SUBSET Users
    /\ likes \in LikeTables /\ song_likes = ZeroCounts
    /\ lk = [w \in Workers |-> IdleWorker] /\ pair = NoPair
    /\ CleanupIdle /\ SanIdle

NextProfile == Tick \/ Profile

SpecProfile == InitProfile /\ [][NextProfile]_vars

(***************************************************************************)
(* Properties of the profile page (SpecProfile).                           *)
(***************************************************************************)
\* C12: when an authenticated user without a Profile row visits the profile
\* page, a Profile row for that user's identifier is created: after a visit in
\* which the page's handler ran, a Profile row exists for the visiting user.
C12_VisitCreatesProfile ==
    (trace.endpoint = "profile" /\ trace.view_ran) =>
        trace.view_session.id \in profiles

====
